---- MODULE Spec2Model ----
(***************************************************************************)
(* Verification model of the KvStore merge core of openr                   *)
(* (openr/kvstore/KvStoreUtil.cpp): mergeKeyValues, KvStoreFilters,         *)
(* compareValues and dumpDifference.                                        *)
(*                                                                         *)
(* std::string is a sequence of bytes, std::optional<T> is a sequence of   *)
(* length 0 (nullopt) or 1, and std::unordered_map<K, V> is a function     *)
(* whose DOMAIN is the set of keys present.                                 *)
(***************************************************************************)
EXTENDS Integers, Sequences, FiniteSets, TLC

\* ------------------------------------------------------------------ bounds
\* versions of the records drawn as inputs: 0 .. MaxVersion
MaxVersion == 2
\* ttlVersions of the records drawn as inputs: 0 .. MaxTtlVersion
MaxTtlVersion == 1

\* --------------------------------------------------------------- constants
\* Constants::kTtlInfinity (the smallest 32-bit integer)
kTtlInfinity == -2147483647 - 1

\* ------------------------------------------------------------ input domains
\* the key of the single-key store, and the keys of the two-key store: byte
\* strings that start with two different markers
Keys == {<<1, 1>>}
MapKeys == {<<1, 1>>, <<2, 1>>}
\* originator ids: <<1, 2>> is the longer and the lexicographically smaller
Originators == {<<1, 2>>, <<2>>}
\* value payloads: <<1, 2>> is the longer and the lexicographically smaller
Values == {<<1, 2>>, <<2>>}
\* ttl fields: infinite, invalid (zero, negative), valid
Ttls == {kTtlInfinity, 0, 1}

\* ------------------------------------------------------------ std helpers
None == <<>>
Some(x) == <<x>>
has_value(opt) == Len(opt) = 1

\* std::string::compare: the difference of the first bytes that differ, or
\* of the lengths when one string is a prefix of the other
RECURSIVE compare(_, _)
compare(a, b) ==
  IF a = <<>> \/ b = <<>> THEN Len(a) - Len(b)
  ELSE IF Head(a) # Head(b) THEN Head(a) - Head(b)
  ELSE compare(Tail(a), Tail(b))

\* operator> of std::string
StrGreater(a, b) == compare(a, b) > 0

\* mutant of MapPut: the map holds the written entry only
MapPut_OnlyEntry(m, k, v) == [x \in {k} |-> v]

\* unordered_map::emplace / assignment through an iterator
MapPut(m, k, v) == [x \in (DOMAIN m) \cup {k} |-> IF x = k THEN v ELSE m[x]]

EmptyMap == [x \in {} |-> None]

\* ------------------------------------------------------------------- hash
RECURSIVE Digest(_)
Digest(s) == IF s = <<>> THEN 7 ELSE (Digest(Tail(s)) * 31 + Head(s)) % 97

\* generateHash(version, originatorId, value): a deterministic digest of the
\* three fields
generateHash(version, originatorId, value) ==
  (version * 13 + Digest(originatorId) * 5
     + (IF has_value(value) THEN 1 + Digest(value[1]) ELSE 0)) % 97

\* ---------------------------------------------------------------- filters
\* RegexSet::match of a set of patterns anchored at the start of the key
IsPrefix(p, key) == Len(p) <= Len(key) /\ SubSeq(key, 1, Len(p)) = p

RegexSetMatch(keyPrefixList, key) ==
  \E i \in 1..Len(keyPrefixList) : IsPrefix(keyPrefixList[i], key)

\* KvStoreFilters::KvStoreFilters
KvStoreFilters(keyPrefix, nodeIds, filterOperator) ==
  [keyPrefixList |-> keyPrefix, originatorIds |-> nodeIds,
   filterOperator |-> filterOperator]

\* mutant of keyMatchAny: a filter with two empty lists rejects
keyMatchAny_EmptyRejects(f, key, value) ==
  \/ f.keyPrefixList # <<>> /\ RegexSetMatch(f.keyPrefixList, key)
  \/ f.originatorIds # {} /\ value.originatorId \in f.originatorIds

\* KvStoreFilters::keyMatchAny
keyMatchAny(f, key, value) ==
  IF f.keyPrefixList = <<>> /\ f.originatorIds = {} THEN TRUE
  ELSE IF f.keyPrefixList # <<>> /\ RegexSetMatch(f.keyPrefixList, key) THEN TRUE
  ELSE IF f.originatorIds # {} /\ value.originatorId \in f.originatorIds THEN TRUE
  ELSE FALSE

\* mutant of keyMatchAll: a non-empty list must match, an empty list rejects
keyMatchAll_EmptyListRejects(f, key, value) ==
  IF f.keyPrefixList = <<>> /\ f.originatorIds = {} THEN TRUE
  ELSE /\ RegexSetMatch(f.keyPrefixList, key)
       /\ value.originatorId \in f.originatorIds

\* KvStoreFilters::keyMatchAll
keyMatchAll(f, key, value) ==
  IF f.keyPrefixList = <<>> /\ f.originatorIds = {} THEN TRUE
  ELSE IF f.keyPrefixList # <<>> /\ ~RegexSetMatch(f.keyPrefixList, key) THEN FALSE
  ELSE IF f.originatorIds # {} /\ ~(value.originatorId \in f.originatorIds) THEN FALSE
  ELSE TRUE

\* KvStoreFilters::keyMatch
keyMatch(f, key, value) ==
  IF f.filterOperator = "OR" THEN keyMatchAny(f, key, value)
  ELSE keyMatchAll(f, key, value)

\* ------------------------------------------------------ getKvStoreFilters
\* Constants::kPrefixAllocMarker and Constants::kNodeLabelRangePrefix: two byte
\* strings no key of the stores starts with
kPrefixAllocMarker == <<3>>
kNodeLabelRangePrefix == <<4>>

\* the filterOperator argument of KvStoreFilters::KvStoreFilters when the
\* caller passes none
kDefaultFilterOperator == "OR"

\* std::optional::value_or
value_or(opt, default) == IF has_value(opt) THEN opt[1] ELSE default

\* the std::set of the elements of a vector
SetOf(list) == {list[i] : i \in DOMAIN list}

\* mutant of getKvStoreFilters: the filters are built whether or not the node
\* is a leaf node
getKvStoreFilters_LeafOrNot(config) ==
  Some(KvStoreFilters(
    value_or(config.key_prefix_filters, <<>>)
      \o <<kPrefixAllocMarker, kNodeLabelRangePrefix>>,
    SetOf(value_or(config.key_originator_id_filters, <<>>))
      \cup {config.node_name},
    kDefaultFilterOperator))

\* mutant of getKvStoreFilters: the node name is not added to the originators
getKvStoreFilters_WithoutNodeName(config) ==
  IF value_or(config.set_leaf_node, FALSE)
  THEN Some(KvStoreFilters(
         value_or(config.key_prefix_filters, <<>>)
           \o <<kPrefixAllocMarker, kNodeLabelRangePrefix>>,
         SetOf(value_or(config.key_originator_id_filters, <<>>)),
         kDefaultFilterOperator))
  ELSE None

\* getKvStoreFilters(config) (lines 15-39)
getKvStoreFilters(config) ==
  IF value_or(config.set_leaf_node, FALSE)
  THEN Some(KvStoreFilters(
         value_or(config.key_prefix_filters, <<>>)
           \o <<kPrefixAllocMarker, kNodeLabelRangePrefix>>,
         SetOf(value_or(config.key_originator_id_filters, <<>>))
           \cup {config.node_name},
         kDefaultFilterOperator))
  ELSE None

\* --------------------------------------------------------- mergeKeyValues
\* The outcomes of reading kvStoreIt->second when kvStoreIt == kvStore.end()
\* (lines 96-114, reached with newVersion == myVersion == 0 and the key
\* absent): the read faults ("abort"), or it yields garbage that makes a
\* comparison succeed and the record is stored ("update"), or garbage that
\* makes every comparison fail ("skip").  Garbage that selects the ttl update
\* fails CHECK(kvStoreIt != kvStore.end()) and also aborts.  Which of them
\* happens is decided by the build (what end() points to in its standard
\* library), so it is one choice for a whole run.
UbOutcomes == {"abort", "update", "skip"}

\* mutant of FilterRejects: the filters are not consulted
FilterRejects_Never(filters, key, value) == FALSE

\* a filter is given and does not match the entry (line 53)
FilterRejects(filters, key, value) ==
  has_value(filters) /\ ~keyMatch(filters[1], key, value)

\* mutant of TtlValid: only a negative ttl is invalid, zero is let through
TtlValid_ZeroAllowed(value) == ~(value.ttl # kTtlInfinity /\ value.ttl < 0)

\* if the TTL is valid: infinite or a positive number (line 66, negated)
TtlValid(value) == ~(value.ttl # kTtlInfinity /\ value.ttl <= 0)

\* mutant of IsOldVersion: an old version is not skipped
IsOldVersion_Never(newVersion, myVersion) == FALSE

\* "If we get an old value just skip it" (line 80)
IsOldVersion(newVersion, myVersion) == newVersion < myVersion

\* mutant of UpdateAllNeeded: any other originatorId wins at equal versions
UpdateAllNeeded_AnyOriginator(value, newVersion, myVersion, cur) ==
  IF newVersion > myVersion THEN TRUE
  ELSE IF value.originatorId # cur.originatorId THEN TRUE
  ELSE compare(value.value[1], cur.value[1]) > 0

\* mutant of UpdateAllNeeded: no tie-break on the value bytes
UpdateAllNeeded_NoValueTie(value, newVersion, myVersion, cur) ==
  IF newVersion > myVersion THEN TRUE
  ELSE StrGreater(value.originatorId, cur.originatorId)

\* mutant of UpdateAllNeeded: at equal version and originatorId any other
\* value wins (rc != 0 for rc > 0)
UpdateAllNeeded_AnyOtherValue(value, newVersion, myVersion, cur) ==
  IF newVersion > myVersion THEN TRUE
  ELSE IF StrGreater(value.originatorId, cur.originatorId) THEN TRUE
  ELSE IF value.originatorId = cur.originatorId
       THEN compare(value.value[1], cur.value[1]) # 0
  ELSE FALSE

\* updateAllNeeded of a value-bearing record against a stored one (lines 91-118)
UpdateAllNeeded(value, newVersion, myVersion, cur) ==
  IF newVersion > myVersion THEN TRUE
  ELSE IF StrGreater(value.originatorId, cur.originatorId) THEN TRUE
  ELSE IF value.originatorId = cur.originatorId
       THEN compare(value.value[1], cur.value[1]) > 0
  ELSE FALSE

\* mutant of UpdateTtlByValue: an equal ttlVersion refreshes the ttl too
UpdateTtlByValue_OrEqual(value, newVersion, myVersion, cur) ==
  /\ ~(newVersion > myVersion)
  /\ value.originatorId = cur.originatorId
  /\ compare(value.value[1], cur.value[1]) = 0
  /\ value.ttlVersion >= cur.ttlVersion

\* mutant of UpdateTtlByValue: any other ttlVersion refreshes the ttl
UpdateTtlByValue_OtherTtlVersion(value, newVersion, myVersion, cur) ==
  /\ ~(newVersion > myVersion)
  /\ value.originatorId = cur.originatorId
  /\ compare(value.value[1], cur.value[1]) = 0
  /\ value.ttlVersion # cur.ttlVersion

\* updateTtlNeeded of a value-bearing record against a stored one (lines 99-117)
UpdateTtlByValue(value, newVersion, myVersion, cur) ==
  /\ ~(newVersion > myVersion)
  /\ ~StrGreater(value.originatorId, cur.originatorId)
  /\ value.originatorId = cur.originatorId
  /\ compare(value.value[1], cur.value[1]) = 0
  /\ value.ttlVersion > cur.ttlVersion

\* mutant of UpdateTtlByRefresh: the versions are not compared
UpdateTtlByRefresh_AnyVersion(value, found, cur) ==
  /\ ~has_value(value.value)
  /\ found
  /\ value.originatorId = cur.originatorId
  /\ value.ttlVersion > cur.ttlVersion

\* mutant of UpdateTtlByRefresh: any other ttlVersion refreshes the ttl
UpdateTtlByRefresh_OtherTtlVersion(value, found, cur) ==
  /\ ~has_value(value.value)
  /\ found
  /\ value.version = cur.version
  /\ value.originatorId = cur.originatorId
  /\ value.ttlVersion # cur.ttlVersion

\* updateTtlNeeded of a value-absent record (lines 124-129)
UpdateTtlByRefresh(value, found, cur) ==
  /\ ~has_value(value.value)
  /\ found
  /\ value.version = cur.version
  /\ value.originatorId = cur.originatorId
  /\ value.ttlVersion > cur.ttlVersion

\* mutant of StoredCopy: the record is stored as it came, a missing hash is
\* not filled in
StoredCopy_AsReceived(value) == value

\* mutant of StoredCopy: the hash filled in leaves the value out
StoredCopy_HashWithoutValue(value) ==
  IF has_value(value.hash) THEN value
  ELSE [value EXCEPT !.hash =
          Some(generateHash(value.version, value.originatorId, None))]

\* the record stored by an update of everything (lines 150-178): a copy of
\* the incoming record, its hash filled in when it has none
StoredCopy(value) ==
  IF has_value(value.hash) THEN value
  ELSE [value EXCEPT !.hash =
          Some(generateHash(value.version, value.originatorId, value.value))]

\* mutant of TtlUpdated: the ttlVersion is updated, the ttl is left
TtlUpdated_TtlLeft(cur, value) == [cur EXCEPT !.ttlVersion = value.ttlVersion]

\* mutant of TtlUpdated: the hash of the incoming record is taken over too
TtlUpdated_WithHash(cur, value) ==
  [cur EXCEPT !.ttl = value.ttl, !.ttlVersion = value.ttlVersion,
              !.hash = value.hash]

\* the record left by an update of the ttl alone (lines 186-188)
TtlUpdated(cur, value) ==
  [cur EXCEPT !.ttl = value.ttl, !.ttlVersion = value.ttlVersion]

\* mutant of Announced: the announcement carries the hash the store filled in
Announced_WithHash(kvUpdates, key, value) ==
  MapPut(kvUpdates, key, StoredCopy(value))

\* "announce the update": kvUpdates.emplace(key, value) (line 192)
Announced(kvUpdates, key, value) == MapPut(kvUpdates, key, value)

\* One iteration of the loop of mergeKeyValues (lines 52-193) on the entry
\* (key, value) of keyVals.  acc is [kvStore, kvUpdates, aborted].
MergeEntry(acc, key, value, filters, ub) ==
  LET kvStore == acc.kvStore
      found == key \in DOMAIN kvStore
      \* kvStoreIt->second; the model never reads it when the key is absent
      cur == IF found THEN kvStore[key] ELSE value
      myVersion == IF found THEN kvStore[key].version ELSE 0
      newVersion == value.version
      readsEnd == has_value(value.value) /\ ~(newVersion > myVersion) /\ ~found
      updateAllNeeded ==
        IF ~has_value(value.value) THEN FALSE
        ELSE IF readsEnd THEN ub = "update"
        ELSE UpdateAllNeeded(value, newVersion, myVersion, cur)
      updateTtlNeeded ==
        \/ has_value(value.value) /\ ~readsEnd
             /\ UpdateTtlByValue(value, newVersion, myVersion, cur)
        \/ UpdateTtlByRefresh(value, found, cur)
  IN IF acc.aborted THEN acc
     ELSE IF FilterRejects(filters, key, value) THEN acc
     ELSE IF ~TtlValid(value) THEN acc
     ELSE IF IsOldVersion(newVersion, myVersion) THEN acc
     ELSE IF readsEnd /\ ub = "abort" THEN [acc EXCEPT !.aborted = TRUE]
     ELSE IF ~updateAllNeeded /\ ~updateTtlNeeded THEN acc
     ELSE IF updateAllNeeded
          THEN [acc EXCEPT !.kvStore = MapPut(kvStore, key, StoredCopy(value)),
                           !.kvUpdates = Announced(acc.kvUpdates, key, value)]
     ELSE [acc EXCEPT !.kvStore = MapPut(kvStore, key, TtlUpdated(cur, value)),
                      !.kvUpdates = Announced(acc.kvUpdates, key, value)]

\* mutant of MergeLoop: the loop ends at the first entry that updates the store
RECURSIVE MergeLoop_StopAtUpdate(_, _, _, _, _)
MergeLoop_StopAtUpdate(acc, keyVals, order, filters, ub) ==
  IF order = <<>> \/ acc.kvUpdates # EmptyMap THEN acc
  ELSE MergeLoop_StopAtUpdate(
         MergeEntry(acc, Head(order), keyVals[Head(order)], filters, ub),
         keyVals, Tail(order), filters, ub)

\* the loop over keyVals, in the iteration order `order` of the unordered_map
RECURSIVE MergeLoop(_, _, _, _, _)
MergeLoop(acc, keyVals, order, filters, ub) ==
  IF order = <<>> THEN acc
  ELSE MergeLoop(MergeEntry(acc, Head(order), keyVals[Head(order)], filters, ub),
                 keyVals, Tail(order), filters, ub)

\* mergeKeyValues(kvStore, keyVals, filters): the store after the call, the
\* returned kvUpdates, and whether the process aborted
mergeKeyValues(kvStore, keyVals, order, filters, ub) ==
  MergeLoop([kvStore |-> kvStore, kvUpdates |-> EmptyMap, aborted |-> FALSE],
            keyVals, order, filters, ub)

\* the iteration orders of an unordered_map: the permutations of its keys
Orders(m) ==
  {s \in [1..Cardinality(DOMAIN m) -> DOMAIN m] :
     \A i, j \in 1..Cardinality(DOMAIN m) : i # j => s[i] # s[j]}

\* ------------------------------------------------------------ the records
OptValues == {None} \cup {Some(v) : v \in Values}

\* the hash field an incoming record may carry: none, the digest of its own
\* fields, or another number
HashChoices(version, originatorId, value) ==
  {None, Some(generateHash(version, originatorId, value)),
   Some((generateHash(version, originatorId, value) + 1) % 97)}

\* thrift::Value: the incoming records of the single-key store
Records ==
  UNION {{[version |-> v, originatorId |-> o, value |-> val, ttlVersion |-> tv,
           ttl |-> t, hash |-> h] : h \in HashChoices(v, o, val)} :
         v \in 0..MaxVersion, o \in Originators, val \in OptValues,
         tv \in 0..MaxTtlVersion, t \in Ttls}

\* the filters argument of mergeKeyValues: none, an OR filter and an AND filter
FilterChoices ==
  {None, Some(KvStoreFilters(<<<<2>>>>, {<<2>>}, "OR")),
   Some(KvStoreFilters(<<<<1>>>>, {<<1, 2>>}, "AND"))}

\* the keyVals argument of mergeKeyValues on the single-key store
Batches == {EmptyMap} \cup {[x \in {k} |-> r] : k \in Keys, r \in Records}

\* ------------------------------------------------------------------ state
VARIABLES
  pc,         \* "idle": no call in progress; "returned": mergeKeyValues has
              \* returned and its caller holds the result; "aborted": the
              \* process has aborted (a failed CHECK or a faulting read)
  kvStore,    \* the store: std::unordered_map<std::string, thrift::Value>
  prevStore,  \* the store as it was when the call began
  keyVals,    \* the keyVals argument of the call
  filters,    \* the filters argument of the call
  kvUpdates,  \* the publication the call returned
  endRead,    \* what a read through kvStore.end() does in this build
  first,      \* delivery order: the publication B1
  second,     \* delivery order: the publication B2
  storeAB,    \* delivery order: the copy of the store that gets B1 then B2
  storeBA,    \* delivery order: the copy of the store that gets B2 then B1
  stores,     \* gossip: the store of every node
  inflight,   \* gossip: the FLOOD_PUB messages sent and not yet delivered
  originated, \* gossip: the number of publications local publishers made
  args,       \* function calls: the arguments of the call
  result      \* function calls: what the call returned (an optional)

callVars == <<kvStore, prevStore, keyVals, filters, kvUpdates>>

orderVars == <<first, second, storeAB, storeBA>>

gossipVars == <<stores, inflight, originated>>

fnVars == <<args, result>>

vars == <<pc, callVars, endRead, orderVars, gossipVars, fnVars>>

\* the variables of the delivery-order runs, unused elsewhere
InitOrderUnused ==
  /\ first = EmptyMap
  /\ second = EmptyMap
  /\ storeAB = EmptyMap
  /\ storeBA = EmptyMap

\* the variables of the gossip runs, unused elsewhere
InitGossipUnused ==
  /\ stores = EmptyMap
  /\ inflight = {}
  /\ originated = 0

\* the variables of the calls of the functions without state, unused elsewhere
InitFnUnused ==
  /\ args = None
  /\ result = None

\* the variables of the calls of mergeKeyValues, where no store is involved
InitCallUnused ==
  /\ kvStore = EmptyMap
  /\ prevStore = EmptyMap
  /\ keyVals = EmptyMap
  /\ filters = None
  /\ kvUpdates = EmptyMap
  /\ endRead = "abort"

Init ==
  /\ pc = "idle"
  /\ kvStore = EmptyMap
  /\ prevStore = EmptyMap
  /\ keyVals = EmptyMap
  /\ filters = None
  /\ kvUpdates = EmptyMap
  /\ endRead \in UbOutcomes
  /\ InitOrderUnused
  /\ InitGossipUnused
  /\ InitFnUnused

\* one call mergeKeyValues(kvStore, b, f), from entry to return
MergeCall(b, f) ==
  /\ pc = "idle"
  /\ \E order \in Orders(b) :
       LET r == mergeKeyValues(kvStore, b, order, f, endRead)
       IN /\ kvStore' = r.kvStore
          /\ kvUpdates' = r.kvUpdates
          /\ pc' = IF r.aborted THEN "aborted" ELSE "returned"
  /\ prevStore' = kvStore
  /\ keyVals' = b
  /\ filters' = f
  /\ UNCHANGED <<endRead, orderVars, gossipVars, fnVars>>

\* a publication is merged into the single-key store
Merge == \E b \in Batches, f \in FilterChoices : MergeCall(b, f)

\* the caller is done with the returned publication: the arguments and the
\* result of the call go out of scope, the store stays
Consume ==
  /\ pc = "returned"
  /\ pc' = "idle"
  /\ prevStore' = kvStore
  /\ keyVals' = EmptyMap
  /\ filters' = None
  /\ kvUpdates' = EmptyMap
  /\ UNCHANGED <<kvStore, endRead, orderVars, gossipVars, fnVars>>

Next == Merge \/ Consume

Spec == Init /\ [][Next]_vars

\* The caller merges the same publication again, or merges the delta the
\* call returned (a duplicate FLOOD_PUB), with the same filters.
RemergeCall(b) ==
  /\ pc = "returned"
  /\ \E order \in Orders(b) :
       LET r == mergeKeyValues(kvStore, b, order, filters, endRead)
       IN /\ kvStore' = r.kvStore
          /\ kvUpdates' = r.kvUpdates
          /\ pc' = IF r.aborted THEN "aborted again" ELSE "merged again"
  /\ prevStore' = kvStore
  /\ keyVals' = b
  /\ UNCHANGED <<filters, endRead, orderVars, gossipVars, fnVars>>

RemergeBatch == RemergeCall(keyVals)

RemergeDelta == RemergeCall(kvUpdates)

\* the caller is done with the second call
ConsumeAgain ==
  /\ pc = "merged again"
  /\ pc' = "idle"
  /\ prevStore' = kvStore
  /\ keyVals' = EmptyMap
  /\ filters' = None
  /\ kvUpdates' = EmptyMap
  /\ UNCHANGED <<kvStore, endRead, orderVars, gossipVars, fnVars>>

NextTwice == Merge \/ Consume \/ RemergeBatch \/ RemergeDelta \/ ConsumeAgain

\* the single-key store, each publication possibly merged twice in a row
SpecTwice == Init /\ [][NextTwice]_vars

\* ------------------------------------------------------ the two-key store
\* the incoming records of the two-key store: versions from 1, so the read
\* through end() is never reached, no hash, ttl 1 on a record with a value
\* and ttl 2 on a TTL refresh
MapRecords ==
  {[version |-> v, originatorId |-> o, value |-> val, ttlVersion |-> tv,
    ttl |-> IF has_value(val) THEN 1 ELSE 2, hash |-> None] :
   v \in 1..MaxVersion, o \in Originators, val \in {None, Some(<<2>>)},
   tv \in 0..MaxTtlVersion}

\* filters of the two-key store: none, the keys that start with 2 or come
\* from <<2>>, the keys that start with 1 and come from <<1, 2>>
MapFilterChoices == FilterChoices

\* publications of one entry
MapSingles == {[x \in {k} |-> r] : k \in MapKeys, r \in MapRecords}

\* publications with an entry for each of the two keys, both written with
\* the same version and ttlVersion
MapDoubles ==
  {b \in [MapKeys -> MapRecords] :
     \A k1, k2 \in MapKeys : /\ b[k1].version = b[k2].version
                             /\ b[k1].ttlVersion = b[k2].ttlVersion}

InitMap ==
  /\ pc = "idle"
  /\ kvStore = EmptyMap
  /\ prevStore = EmptyMap
  /\ keyVals = EmptyMap
  /\ filters = None
  /\ kvUpdates = EmptyMap
  /\ endRead = "abort"
  /\ InitOrderUnused
  /\ InitGossipUnused
  /\ InitFnUnused

\* a publication of one entry is merged into the two-key store
MergeSingle == \E b \in MapSingles, f \in MapFilterChoices : MergeCall(b, f)

\* a publication of two entries is merged into the two-key store
MergeDouble == \E b \in MapDoubles : MergeCall(b, None)

NextMap == MergeSingle \/ MergeDouble \/ Consume

\* the two-key store
SpecMap == InitMap /\ [][NextMap]_vars

\* ------------------------------------------------------- delivery order
\* A record a store can hold: it has a value, the digest of its fields as
\* hash and a valid ttl.
OrderStored ==
  {[version |-> v, originatorId |-> o, value |-> Some(val), ttlVersion |-> tv,
    ttl |-> 1, hash |-> Some(generateHash(v, o, Some(val)))] :
   v \in 1..MaxVersion, o \in Originators, val \in Values,
   tv \in 0..MaxTtlVersion}

\* the store S the two delivery orders start from
OrderStores == {EmptyMap} \cup {[x \in {k} |-> r] : k \in Keys, r \in OrderStored}

\* the records of B1 and B2: versions from 1, with a value or without
OrderRecords ==
  {[version |-> v, originatorId |-> o, value |-> val, ttlVersion |-> tv,
    ttl |-> 1, hash |-> None] :
   v \in 1..MaxVersion, o \in Originators, val \in OptValues,
   tv \in 0..MaxTtlVersion}

OrderBatches == {[x \in {k} |-> r] : k \in Keys, r \in OrderRecords}

InitOrder ==
  /\ pc = "S"
  /\ kvStore \in OrderStores
  /\ prevStore = kvStore
  /\ keyVals = EmptyMap
  /\ filters = None
  /\ kvUpdates = EmptyMap
  /\ endRead = "abort"
  /\ first \in OrderBatches
  /\ second \in OrderBatches
  /\ storeAB = kvStore
  /\ storeBA = kvStore
  /\ InitGossipUnused
  /\ InitFnUnused

\* store2 is the store a call mergeKeyValues(store, b, no filter) leaves
MergedInto(store, b, store2) ==
  \E order \in Orders(b) :
    store2 = mergeKeyValues(store, b, order, None, endRead).kvStore

\* one copy of S merges B1 ...
MergeFirstAB ==
  /\ pc = "S"
  /\ pc' = "S+B1"
  /\ MergedInto(storeAB, first, storeAB')
  /\ UNCHANGED <<callVars, endRead, first, second, storeBA, gossipVars, fnVars>>

\* ... and then B2
MergeSecondAB ==
  /\ pc = "S+B1"
  /\ pc' = "S+B1+B2"
  /\ MergedInto(storeAB, second, storeAB')
  /\ UNCHANGED <<callVars, endRead, first, second, storeBA, gossipVars, fnVars>>

\* the other copy of S merges B2 ...
MergeSecondBA ==
  /\ pc = "S+B1+B2"
  /\ pc' = "S+B2"
  /\ MergedInto(storeBA, second, storeBA')
  /\ UNCHANGED <<callVars, endRead, first, second, storeAB, gossipVars, fnVars>>

\* ... and then B1
MergeFirstBA ==
  /\ pc = "S+B2"
  /\ pc' = "both orders done"
  /\ MergedInto(storeBA, first, storeBA')
  /\ UNCHANGED <<callVars, endRead, first, second, storeAB, gossipVars, fnVars>>

NextOrder == MergeFirstAB \/ MergeSecondAB \/ MergeSecondBA \/ MergeFirstBA

\* two copies of a store S get the publications B1 and B2 in the two orders
SpecOrder == InitOrder /\ [][NextOrder]_vars

\* ----------------------------------------------------------------- gossip
\* Three stores on a line 1 - 2 - 3.  Every node merges what a local
\* publisher sets and every FLOOD_PUB it receives with mergeKeyValues (no
\* filter) and floods a non-empty delta to its neighbours, except the one
\* the publication came from.  Messages are delivered in any order, and a
\* message may be delivered more than once.
Nodes == {1, 2, 3}

Neighbours(n) == {m \in Nodes : m - n = 1 \/ n - m = 1}

\* publications local publishers make in one run
MaxOriginate == 2

\* the records local publishers set: versions from 1, with a value or
\* without (the TTL refresh of the publish loop)
GossipRecords ==
  {[version |-> v, originatorId |-> <<2>>, value |-> val, ttlVersion |-> tv,
    ttl |-> 1, hash |-> None] :
   v \in {1, 2}, val \in OptValues, tv \in {0, 1}}

InitGossip ==
  /\ pc = "gossip"
  /\ kvStore = EmptyMap
  /\ prevStore = EmptyMap
  /\ keyVals = EmptyMap
  /\ filters = None
  /\ kvUpdates = EmptyMap
  /\ endRead = "abort"
  /\ InitOrderUnused
  /\ stores = [n \in Nodes |-> EmptyMap]
  /\ inflight = {}
  /\ originated = 0
  /\ InitFnUnused

\* FLOOD_PUB{delta} from node n to each node of `to`
Flood(n, to, delta) ==
  IF delta = EmptyMap THEN {}
  ELSE {[src |-> n, dst |-> m, keyVals |-> delta] : m \in to}

\* setKeyVals at node n: merge, then flood the delta to every neighbour
Originate ==
  /\ originated < MaxOriginate
  /\ \E n \in Nodes, k \in Keys, rec \in GossipRecords :
       LET b == [x \in {k} |-> rec]
       IN \E order \in Orders(b) :
            LET r == mergeKeyValues(stores[n], b, order, None, endRead)
            IN /\ stores' = [stores EXCEPT ![n] = r.kvStore]
               /\ inflight' = inflight \cup Flood(n, Neighbours(n), r.kvUpdates)
  /\ originated' = originated + 1
  /\ UNCHANGED <<pc, callVars, endRead, orderVars, fnVars>>

\* node m.dst receives FLOOD_PUB m: merge, then flood the delta to the other
\* neighbours; the message leaves the network unless a duplicate of it stays
Receive(m, duplicate) ==
  /\ \E order \in Orders(m.keyVals) :
       LET r == mergeKeyValues(stores[m.dst], m.keyVals, order, None, endRead)
       IN /\ stores' = [stores EXCEPT ![m.dst] = r.kvStore]
          /\ inflight' =
               (IF duplicate THEN inflight ELSE inflight \ {m})
                 \cup Flood(m.dst, Neighbours(m.dst) \ {m.src}, r.kvUpdates)
  /\ UNCHANGED <<pc, callVars, endRead, orderVars, originated, fnVars>>

Deliver == \E m \in inflight : Receive(m, FALSE)

DeliverDuplicate == \E m \in inflight : Receive(m, TRUE)

NextGossip == Originate \/ Deliver \/ DeliverDuplicate

SpecGossip == InitGossip /\ [][NextGossip]_vars

\* ----------------------------------------------------------- compareValues
Sign(x) == IF x > 0 THEN 1 ELSE IF x < 0 THEN -1 ELSE 0

\* What a.compare(b) of std::string returns.  The standard fixes its sign
\* only; the builds differ in the number: the difference of the first bytes
\* that differ or of the lengths (memcmp of the C library, then the length
\* difference), or -1 and 1.
StringCompareResults(a, b) == {compare(a, b), Sign(compare(a, b))}

\* mutant of compareValues: the values are compared before the hashes
compareValues_ValueBeforeHash(v1, v2, rc) ==
  IF v1.version # v2.version
  THEN (IF v1.version > v2.version THEN 1 ELSE -1)
  ELSE IF v1.originatorId # v2.originatorId
  THEN (IF StrGreater(v1.originatorId, v2.originatorId) THEN 1 ELSE -1)
  ELSE IF has_value(v1.value) /\ has_value(v2.value)
  THEN rc
  ELSE IF has_value(v1.hash) /\ has_value(v2.hash) /\ v1.hash[1] = v2.hash[1]
  THEN (IF v1.ttlVersion # v2.ttlVersion
        THEN (IF v1.ttlVersion > v2.ttlVersion THEN 1 ELSE -1)
        ELSE 0)
  ELSE -2

\* compareValues(v1, v2) (lines 204-238); rc is what
\* (*v1.value_ref()).compare(*v2.value_ref()) returns in this build, read
\* only where line 233 is reached
compareValues(v1, v2, rc) ==
  IF v1.version # v2.version
  THEN (IF v1.version > v2.version THEN 1 ELSE -1)
  ELSE IF v1.originatorId # v2.originatorId
  THEN (IF StrGreater(v1.originatorId, v2.originatorId) THEN 1 ELSE -1)
  ELSE IF has_value(v1.hash) /\ has_value(v2.hash) /\ v1.hash[1] = v2.hash[1]
  THEN (IF v1.ttlVersion # v2.ttlVersion
        THEN (IF v1.ttlVersion > v2.ttlVersion THEN 1 ELSE -1)
        ELSE 0)
  ELSE IF has_value(v1.value) /\ has_value(v2.value)
  THEN rc
  ELSE -2

\* the value payloads compared: those of the stores, one whose first byte is
\* two above, and one that is two bytes longer than its prefix <<2>>
CompareValueBytes == Values \cup {<<4>>, <<2, 1, 1>>}

\* the hash field of a compared record: none, the digest of its own fields,
\* or a number two records with different values can share
CompareHashes(version, originatorId, value) ==
  {None, Some(generateHash(version, originatorId, value)), Some(0)}

\* the records compared
CompareRecords ==
  UNION {{[version |-> v, originatorId |-> o, value |-> val, ttlVersion |-> tv,
           ttl |-> 1, hash |-> h] : h \in CompareHashes(v, o, val)} :
         v \in 1..MaxVersion, o \in Originators,
         val \in {None} \cup {Some(b) : b \in CompareValueBytes},
         tv \in 0..MaxTtlVersion}

InitCompare ==
  /\ pc = "compareValues"
  /\ InitCallUnused
  /\ InitOrderUnused
  /\ InitGossipUnused
  /\ \E r1 \in CompareRecords, r2 \in CompareRecords :
       args = [v1 |-> r1, v2 |-> r2]
  /\ result = None

\* one call compareValues(v1, v2)
CompareValuesCall ==
  /\ pc = "compareValues"
  /\ pc' = "compareValues returned"
  /\ \E rc \in (IF has_value(args.v1.value) /\ has_value(args.v2.value)
                 THEN StringCompareResults(args.v1.value[1], args.v2.value[1])
                 ELSE {0}) :
       result' = Some(compareValues(args.v1, args.v2, rc))
  /\ UNCHANGED <<callVars, endRead, orderVars, gossipVars, args>>

NextCompare == CompareValuesCall

SpecCompare == InitCompare /\ [][NextCompare]_vars

\* ---------------------------------------------------------- dumpDifference
\* the builds by what std::string::compare returns: the difference of the
\* first bytes that differ or of the lengths, or -1, 0 and 1
StringCompareBuilds == {"difference", "sign"}

\* a.compare(b) in a build
StringCompareIn(build, a, b) ==
  IF build = "sign" THEN Sign(compare(a, b)) ELSE compare(a, b)

\* compareValues(v1, v2) in a build
compareValuesIn(build, v1, v2) ==
  compareValues(v1, v2,
                IF has_value(v1.value) /\ has_value(v2.value)
                THEN StringCompareIn(build, v1.value[1], v2.value[1])
                ELSE 0)

\* mutant of DiffEntry: an unknown comparison asks for the key but does not
\* send it (rc == 1 alone at line 362)
DiffEntry_UnknownNotSent(pub, key, myKeyVal, reqKeyVal, build) ==
  IF key \notin DOMAIN myKeyVal
  THEN [pub EXCEPT !.tobeUpdatedKeys = Append(@, key)]
  ELSE IF key \notin DOMAIN reqKeyVal
  THEN [pub EXCEPT !.keyVals = MapPut(@, key, myKeyVal[key])]
  ELSE LET rc == compareValuesIn(build, myKeyVal[key], reqKeyVal[key])
       IN [pub EXCEPT
             !.keyVals = IF rc = 1 THEN MapPut(@, key, myKeyVal[key]) ELSE @,
             !.tobeUpdatedKeys = IF rc = -1 \/ rc = -2 THEN Append(@, key)
                                 ELSE @]

\* one iteration of the loop over allKeys of dumpDifference (lines 345-370)
DiffEntry(pub, key, myKeyVal, reqKeyVal, build) ==
  IF key \notin DOMAIN myKeyVal
  THEN [pub EXCEPT !.tobeUpdatedKeys = Append(@, key)]
  ELSE IF key \notin DOMAIN reqKeyVal
  THEN [pub EXCEPT !.keyVals = MapPut(@, key, myKeyVal[key])]
  ELSE LET rc == compareValuesIn(build, myKeyVal[key], reqKeyVal[key])
       IN [pub EXCEPT
             !.keyVals = IF rc = 1 \/ rc = -2 THEN MapPut(@, key, myKeyVal[key])
                         ELSE @,
             !.tobeUpdatedKeys = IF rc = -1 \/ rc = -2 THEN Append(@, key)
                                 ELSE @]

RECURSIVE DiffLoop(_, _, _, _, _)
DiffLoop(pub, order, myKeyVal, reqKeyVal, build) ==
  IF order = <<>> THEN pub
  ELSE DiffLoop(DiffEntry(pub, Head(order), myKeyVal, reqKeyVal, build),
                Tail(order), myKeyVal, reqKeyVal, build)

\* the iteration orders of the unordered_set allKeys (lines 337-343)
AllKeysOrders(myKeyVal, reqKeyVal) ==
  LET allKeys == DOMAIN myKeyVal \cup DOMAIN reqKeyVal
  IN {o \in [1..Cardinality(allKeys) -> allKeys] :
        \A i, j \in 1..Cardinality(allKeys) : i # j => o[i] # o[j]}

\* dumpDifference(area, myKeyVal, reqKeyVal) (lines 328-373): the
\* thrift::Publication returned, with allKeys iterated in `order`
dumpDifference(area, myKeyVal, reqKeyVal, order, build) ==
  DiffLoop([area |-> area, keyVals |-> EmptyMap, tobeUpdatedKeys |-> <<>>],
           order, myKeyVal, reqKeyVal, build)

\* the records of the first key of the maps compared: with value and hash
\* (a full record), with the hash alone (an entry of a hash dump), with the
\* value alone
DiffRecords ==
  UNION {{[version |-> v, originatorId |-> <<2>>, value |-> Some(val),
           ttlVersion |-> tv, ttl |-> 1,
           hash |-> Some(generateHash(v, <<2>>, Some(val)))],
          [version |-> v, originatorId |-> <<2>>, value |-> None,
           ttlVersion |-> tv, ttl |-> 1,
           hash |-> Some(generateHash(v, <<2>>, Some(val)))],
          [version |-> v, originatorId |-> <<2>>, value |-> Some(val),
           ttlVersion |-> tv, ttl |-> 1, hash |-> None]} :
         v \in {1, 2}, val \in {<<2>>, <<2, 1, 1>>}, tv \in {0, 1}}

\* the records of the second key: two full records of different originators
DiffOtherRecords ==
  {[version |-> 1, originatorId |-> o, value |-> Some(<<2>>), ttlVersion |-> 0,
    ttl |-> 1, hash |-> Some(generateHash(1, o, Some(<<2>>)))] :
   o \in Originators}

\* the maps compared: each key absent or present
DiffMaps ==
  {m \in UNION {[ks -> DiffRecords \cup DiffOtherRecords] : ks \in SUBSET MapKeys} :
     /\ <<1, 1>> \in DOMAIN m => m[<<1, 1>>] \in DiffRecords
     /\ <<2, 1>> \in DOMAIN m => m[<<2, 1>>] \in DiffOtherRecords}

Areas == {"0", "spine"}

InitDiff ==
  /\ pc = "dumpDifference"
  /\ InitCallUnused
  /\ InitOrderUnused
  /\ InitGossipUnused
  /\ \E a \in Areas, my \in DiffMaps, req \in DiffMaps,
        b \in StringCompareBuilds :
       args = [area |-> a, myKeyVal |-> my, reqKeyVal |-> req, build |-> b]
  /\ result = None

\* one call dumpDifference(area, myKeyVal, reqKeyVal)
DumpDifferenceCall ==
  /\ pc = "dumpDifference"
  /\ pc' = "dumpDifference returned"
  /\ \E order \in AllKeysOrders(args.myKeyVal, args.reqKeyVal) :
       result' = Some(dumpDifference(args.area, args.myKeyVal, args.reqKeyVal,
                                     order, args.build))
  /\ UNCHANGED <<callVars, endRead, orderVars, gossipVars, args>>

NextDiff == DumpDifferenceCall

SpecDiff == InitDiff /\ [][NextDiff]_vars

\* --------------------------------------------------- three-way full sync
\* One round between the initiator A and its peer B: A computes
\* dumpDifference(A, B); B merges the keyVals of the result with
\* mergeKeyValues; A merges the records B holds for the tobeUpdatedKeys.
\* The two merges happen in either order.
SyncRecords ==
  {[version |-> v, originatorId |-> o, value |-> Some(val), ttlVersion |-> tv,
    ttl |-> 1, hash |-> Some(generateHash(v, o, Some(val)))] :
   v \in {1, 2}, o \in Originators, val \in {<<2>>, <<2, 1, 1>>},
   tv \in {0, 1}}

\* the stores of A and B: full records, each key absent or present
SyncStores ==
  {m \in UNION {[ks -> SyncRecords] : ks \in SUBSET MapKeys} :
     <<2, 1>> \in DOMAIN m => m[<<2, 1>>] \in DiffOtherRecords}

InitSync ==
  /\ pc = "sync"
  /\ InitCallUnused
  /\ InitOrderUnused
  /\ \E a \in SyncStores, b \in SyncStores : stores = [A |-> a, B |-> b]
  /\ inflight = {}
  /\ originated = 0
  /\ \E b \in StringCompareBuilds : args = [area |-> "0", build |-> b]
  /\ result = None

\* A computes dumpDifference(A, B)
SyncDiff ==
  /\ pc = "sync"
  /\ pc' = "diffed"
  /\ \E order \in AllKeysOrders(stores.A, stores.B) :
       result' = Some(dumpDifference(args.area, stores.A, stores.B, order,
                                     args.build))
  /\ UNCHANGED <<callVars, endRead, orderVars, gossipVars, args>>

\* B merges the keyVals of the publication
PeerMerges ==
  /\ pc \in {"diffed", "initiator merged"}
  /\ pc' = IF pc = "diffed" THEN "peer merged" ELSE "synced"
  /\ \E order \in Orders(result[1].keyVals) :
       stores' = [stores EXCEPT !.B =
                    mergeKeyValues(stores.B, result[1].keyVals, order, None,
                                   endRead).kvStore]
  /\ UNCHANGED <<callVars, endRead, orderVars, inflight, originated, fnVars>>

\* the records B holds for the keys A asked for
Requested(store, keys) ==
  [k \in {keys[i] : i \in DOMAIN keys} \cap DOMAIN store |-> store[k]]

\* A merges the records B holds for the tobeUpdatedKeys of the publication
InitiatorMerges ==
  /\ pc \in {"diffed", "peer merged"}
  /\ pc' = IF pc = "diffed" THEN "initiator merged" ELSE "synced"
  /\ LET resp == Requested(stores.B, result[1].tobeUpdatedKeys)
     IN \E order \in Orders(resp) :
          stores' = [stores EXCEPT !.A =
                       mergeKeyValues(stores.A, resp, order, None,
                                      endRead).kvStore]
  /\ UNCHANGED <<callVars, endRead, orderVars, inflight, originated, fnVars>>

NextSync == SyncDiff \/ PeerMerges \/ InitiatorMerges

SpecSync == InitSync /\ [][NextSync]_vars

\* ------------------------------------------------------------------ Config
\* The constructor of Config validates the configuration it is given and
\* throws when a check fails.  Two of its checks are modelled: the flood rate
\* of the KvStore section and the area ids.
\* the area recognised when no area is configured
kDefaultArea == "0"

\* mutant of checkKvStoreConfig: zero is let through
checkKvStoreConfig_ZeroAllowed(conf) ==
  IF conf.flood_rate = <<>> THEN "ok"
  ELSE IF conf.flood_rate[1].flood_msg_per_sec < 0 THEN "std::out_of_range"
  ELSE IF conf.flood_rate[1].flood_msg_burst_size < 0 THEN "std::out_of_range"
  ELSE "ok"

\* the check of the flood rate: both numbers must be positive
checkKvStoreConfig(conf) ==
  IF conf.flood_rate = <<>> THEN "ok"
  ELSE IF conf.flood_rate[1].flood_msg_per_sec <= 0 THEN "std::out_of_range"
  ELSE IF conf.flood_rate[1].flood_msg_burst_size <= 0 THEN "std::out_of_range"
  ELSE "ok"

\* mutant of populateAreaConfig: only adjacent entries are compared
populateAreaConfig_AdjacentOnly(conf) ==
  IF \E i \in DOMAIN conf.areas :
       i + 1 \in DOMAIN conf.areas /\ conf.areas[i] = conf.areas[i + 1]
  THEN "std::invalid_argument"
  ELSE "ok"

\* the check of the areas: no two entries with the same area id
populateAreaConfig(conf) ==
  IF \E i, j \in DOMAIN conf.areas : i # j /\ conf.areas[i] = conf.areas[j]
  THEN "std::invalid_argument"
  ELSE "ok"

\* Config::getAreas of a constructed Config: the ids of the configured areas,
\* the default area when none is configured
getAreas(conf) ==
  IF conf.areas = <<>> THEN {kDefaultArea}
  ELSE {conf.areas[i] : i \in DOMAIN conf.areas}

\* Config::Config(conf): the exception thrown by the first check that fails,
\* or the Config constructed.  areasFirst tells which of the two checks the
\* constructor makes first.
Config(conf, areasFirst) ==
  LET kv == checkKvStoreConfig(conf)
      ar == populateAreaConfig(conf)
      thrown == IF areasFirst THEN (IF ar # "ok" THEN ar ELSE kv)
                ELSE (IF kv # "ok" THEN kv ELSE ar)
  IN IF thrown # "ok" THEN [constructed |-> FALSE, thrown |-> thrown]
     ELSE [constructed |-> TRUE, areas |-> getAreas(conf)]

AreaIds == {"0", "1", "2"}

\* the numbers of a flood rate
FloodNumbers == {-1, 0, 1, 2}

\* the configurations given to the constructor: up to three areas, no flood
\* rate or one
OpenrConfigs ==
  [areas : UNION {[1..n -> AreaIds] : n \in 0..3},
   flood_rate : {None} \cup
                {Some(r) : r \in [flood_msg_per_sec : FloodNumbers,
                                  flood_msg_burst_size : FloodNumbers]}]

InitConfig ==
  /\ pc = "Config"
  /\ InitCallUnused
  /\ InitOrderUnused
  /\ InitGossipUnused
  /\ \E c \in OpenrConfigs, af \in BOOLEAN :
       args = [conf |-> c, areasFirst |-> af]
  /\ result = None

\* one construction Config(conf)
ConfigCall ==
  /\ pc = "Config"
  /\ pc' = "Config done"
  /\ result' = Some(Config(args.conf, args.areasFirst))
  /\ UNCHANGED <<callVars, endRead, orderVars, gossipVars, args>>

NextConfig == ConfigCall

SpecConfig == InitConfig /\ [][NextConfig]_vars

\* ------------------------------------------------------ calls of keyMatch
\* the prefix lists of a filter: none, one pattern, two patterns
FilterPrefixLists == {<<>>, <<<<1>>>>, <<<<2, 1>>>>, <<<<2, 1>>, <<1, 1>>>>}

\* the originator sets of a filter
FilterOriginatorSets == SUBSET Originators

\* thrift::FilterOperator
FilterOperators == {"OR", "AND"}

\* the keys matched: the two keys of the stores and a key shorter than the
\* pattern <<2, 1>>
FilterKeys == MapKeys \cup {<<2>>}

\* the records matched: one of each originator
FilterRecords ==
  {[version |-> 1, originatorId |-> o, value |-> Some(<<2>>), ttlVersion |-> 0,
    ttl |-> 1, hash |-> None] : o \in Originators}

InitFilter ==
  /\ pc = "keyMatch"
  /\ InitCallUnused
  /\ InitOrderUnused
  /\ InitGossipUnused
  /\ \E p \in FilterPrefixLists, ids \in FilterOriginatorSets,
        op \in FilterOperators, k \in FilterKeys, r \in FilterRecords :
       args = [filters |-> KvStoreFilters(p, ids, op), key |-> k, value |-> r]
  /\ result = None

\* one call filters.keyMatch(key, value)
KeyMatchCall ==
  /\ pc = "keyMatch"
  /\ pc' = "keyMatch returned"
  /\ result' = Some(keyMatch(args.filters, args.key, args.value))
  /\ UNCHANGED <<callVars, endRead, orderVars, gossipVars, args>>

NextFilter == KeyMatchCall

SpecFilter == InitFilter /\ [][NextFilter]_vars

\* --------------------------------------------- calls of getKvStoreFilters
\* the KvStore section of a configuration and the node name
Configs ==
  [set_leaf_node : {None, Some(FALSE), Some(TRUE)},
   key_prefix_filters : {None, Some(<<>>), Some(<<<<1>>>>)},
   key_originator_id_filters : {None, Some(<<>>), Some(<<<<2>>, <<2>>>>)},
   filter_operator : {None, Some("OR"), Some("AND")},
   node_name : Originators]

\* the keys matched against the filters of a leaf node: the keys of the
\* stores and a key under each of the two markers
LeafKeys == MapKeys \cup {kPrefixAllocMarker \o <<1>>, kNodeLabelRangePrefix}

InitLeaf ==
  /\ pc = "getKvStoreFilters"
  /\ InitCallUnused
  /\ InitOrderUnused
  /\ InitGossipUnused
  /\ \E c \in Configs : args = [config |-> c]
  /\ result = None

\* one call getKvStoreFilters(config)
GetKvStoreFiltersCall ==
  /\ pc = "getKvStoreFilters"
  /\ pc' = "getKvStoreFilters returned"
  /\ result' = Some(getKvStoreFilters(args.config))
  /\ UNCHANGED <<callVars, endRead, orderVars, gossipVars, args>>

\* the filters the call returned are asked about a key and a record
LeafKeyMatchCall ==
  /\ pc = "getKvStoreFilters returned"
  /\ has_value(result[1])
  /\ pc' = "leaf keyMatch returned"
  /\ \E k \in LeafKeys, r \in FilterRecords :
       /\ args' = [config |-> args.config, filters |-> result[1][1],
                   key |-> k, value |-> r]
       /\ result' = Some(keyMatch(result[1][1], k, r))
  /\ UNCHANGED <<callVars, endRead, orderVars, gossipVars>>

NextLeaf == GetKvStoreFiltersCall \/ LeafKeyMatchCall

SpecLeaf == InitLeaf /\ [][NextLeaf]_vars

\* ------------------------------------------------- orders the claims name
\* a < b in the lexicographic order of byte strings
LexLess(a, b) ==
  \E i \in 1..Len(b) :
    /\ i <= Len(a) + 1
    /\ \A j \in 1..(i - 1) : a[j] = b[j]
    /\ (i = Len(a) + 1 \/ a[i] < b[i])

\* (version, originatorId) of r1 is below that of r2
PairLess(r1, r2) ==
  \/ r1.version < r2.version
  \/ r1.version = r2.version /\ LexLess(r1.originatorId, r2.originatorId)

\* (version, originatorId, value) of r1 is below that of r2, both with a value
TripleLess(r1, r2) ==
  \/ PairLess(r1, r2)
  \/ /\ r1.version = r2.version
     /\ r1.originatorId = r2.originatorId
     /\ LexLess(r1.value[1], r2.value[1])

Triple(r) == <<r.version, r.originatorId, r.value>>

\* the ttl field is infinite or positive
GoodTtl(r) == r.ttl = kTtlInfinity \/ r.ttl > 0

\* the entry of key k in keyVals passes the filters of the call
PassesFilter(k) == ~has_value(filters) \/ keyMatch(filters[1], k, keyVals[k])

\* the call left the entry of key k in the store as it was
EntryUnchanged(k) ==
  /\ (k \in DOMAIN kvStore) = (k \in DOMAIN prevStore)
  /\ k \in DOMAIN kvStore => kvStore[k] = prevStore[k]

\* ----------------------------------------------------------------- claims
\* C1: across the calls of mergeKeyValues on one store the stored
\* (version, originatorId) of a key never decreases in lexicographic order
\* (version first, then originatorId), and a stored key stays stored.
C1_PairNeverDecreases ==
  \A k \in DOMAIN prevStore :
    k \in DOMAIN kvStore /\ ~PairLess(kvStore[k], prevStore[k])

\* C1 witness: a value-bearing record with the stored version and a smaller
\* originatorId was merged without a filter, and the store kept its record.
C1_Witness ==
  /\ pc = "returned"
  /\ filters = None
  /\ \E k \in DOMAIN keyVals \cap DOMAIN prevStore :
       /\ has_value(keyVals[k].value)
       /\ keyVals[k].ttl > 0
       /\ keyVals[k].version = prevStore[k].version
       /\ LexLess(keyVals[k].originatorId, prevStore[k].originatorId)
       /\ kvStore[k] = prevStore[k]

\* C5: after a value-bearing record inc with version >= 1 and a valid ttl
\* that passes the filter is merged, the stored (version, originatorId,
\* value) is the greater of the triple stored before and the triple of inc
\* (version, then originatorId, then value bytes, lexicographic); inc's triple
\* when the key was absent.
C5_StoredIsGreaterTriple ==
  \A k \in DOMAIN keyVals :
    ( /\ pc = "returned"
      /\ has_value(keyVals[k].value)
      /\ keyVals[k].version >= 1
      /\ GoodTtl(keyVals[k])
      /\ PassesFilter(k) )
    => /\ k \in DOMAIN kvStore
       /\ Triple(kvStore[k]) =
            IF k \in DOMAIN prevStore /\ ~TripleLess(prevStore[k], keyVals[k])
            THEN Triple(prevStore[k])
            ELSE Triple(keyVals[k])

\* C5 witness: the incoming record has the stored version and originatorId
\* and greater value bytes, and its value is the one stored now.
C5_Witness ==
  /\ pc = "returned"
  /\ \E k \in DOMAIN keyVals \cap DOMAIN prevStore :
       /\ has_value(keyVals[k].value)
       /\ keyVals[k].version >= 1
       /\ keyVals[k].version = prevStore[k].version
       /\ keyVals[k].originatorId = prevStore[k].originatorId
       /\ LexLess(prevStore[k].value[1], keyVals[k].value[1])
       /\ kvStore[k].value = keyVals[k].value

\* C6: an incoming record, with or without a value, whose version is lower
\* than the stored version of its key leaves the stored record as it was and
\* is not in the returned delta.
C6_OldVersionIgnored ==
  \A k \in DOMAIN keyVals \cap DOMAIN prevStore :
    (pc = "returned" /\ keyVals[k].version < prevStore[k].version)
    => /\ k \in DOMAIN kvStore
       /\ kvStore[k] = prevStore[k]
       /\ k \notin DOMAIN kvUpdates

\* C6 witness: a record with a lower version, a valid ttl, a greater
\* originatorId and no filter in its way was merged.
C6_Witness ==
  /\ pc = "returned"
  /\ filters = None
  /\ \E k \in DOMAIN keyVals \cap DOMAIN prevStore :
       /\ keyVals[k].version < prevStore[k].version
       /\ keyVals[k].version >= 1
       /\ has_value(keyVals[k].value)
       /\ keyVals[k].ttl > 0
       /\ LexLess(prevStore[k].originatorId, keyVals[k].originatorId)

\* the stored record of key k admits the ttl refresh keyVals[k]
RefreshApplies(k) ==
  /\ k \in DOMAIN prevStore
  /\ keyVals[k].version = prevStore[k].version
  /\ keyVals[k].originatorId = prevStore[k].originatorId
  /\ keyVals[k].ttlVersion > prevStore[k].ttlVersion

\* what a value-absent record keyVals[k] does: applied and reported exactly
\* when RefreshApplies(k), otherwise nothing changes and nothing is reported
RefreshOutcome(k) ==
  IF RefreshApplies(k)
  THEN /\ k \in DOMAIN kvUpdates
       /\ k \in DOMAIN kvStore
       /\ kvStore[k].ttl = keyVals[k].ttl
       /\ kvStore[k].ttlVersion = keyVals[k].ttlVersion
  ELSE /\ kvStore = prevStore
       /\ k \notin DOMAIN kvUpdates

\* C8 as claimed: a value-absent record with a valid ttl is applied and
\* reported if and only if the key is stored with the same version and
\* originatorId and a smaller ttlVersion; otherwise nothing changes.
C8_RefreshIffAsClaimed ==
  \A k \in DOMAIN keyVals :
    (pc = "returned" /\ ~has_value(keyVals[k].value) /\ GoodTtl(keyVals[k]))
    => RefreshOutcome(k)

\* C8 amended: the same for a value-absent record with a valid ttl that
\* passes the filter of the call (when one is given); a record the filter
\* rejects changes nothing and is not reported.
C8_RefreshIffPassingFilter ==
  \A k \in DOMAIN keyVals :
    (pc = "returned" /\ ~has_value(keyVals[k].value) /\ GoodTtl(keyVals[k]))
    => IF PassesFilter(k) THEN RefreshOutcome(k)
       ELSE kvStore = prevStore /\ k \notin DOMAIN kvUpdates

\* C8 witness: a ttl refresh passed the filter, was applied and reported.
C8_Witness ==
  /\ pc = "returned"
  /\ \E k \in DOMAIN keyVals :
       /\ ~has_value(keyVals[k].value)
       /\ PassesFilter(k)
       /\ RefreshApplies(k)
       /\ k \in DOMAIN kvUpdates
       /\ kvStore[k].ttlVersion > prevStore[k].ttlVersion

\* C9: every stored record has ttl == TTL_INFINITY or ttl > 0 after any
\* sequence of calls, and an incoming record with a non-infinite ttl <= 0 is
\* neither stored nor reported.
C9_StoredTtlValid ==
  /\ \A k \in DOMAIN kvStore : GoodTtl(kvStore[k])
  /\ \A k \in DOMAIN keyVals :
       (pc = "returned" /\ ~GoodTtl(keyVals[k]))
       => EntryUnchanged(k) /\ k \notin DOMAIN kvUpdates

\* C9 witness: a value-bearing record with ttl 0 and a version above the
\* stored one was merged without a filter.
C9_Witness ==
  /\ pc = "returned"
  /\ filters = None
  /\ \E k \in DOMAIN keyVals \cap DOMAIN prevStore :
       /\ keyVals[k].ttl = 0
       /\ has_value(keyVals[k].value)
       /\ keyVals[k].version > prevStore[k].version

\* every record of store m that has a hash has the digest of its own fields
HashesRight(m) ==
  \A k \in DOMAIN m :
    has_value(m[k].hash)
    => m[k].hash[1] = generateHash(m[k].version, m[k].originatorId, m[k].value)

\* C10 as claimed: every stored record that has a hash has
\* hash == H(version, originatorId, value) of itself, whatever hash the
\* incoming records carried.
C10_StoredHashAsClaimed == HashesRight(kvStore)

\* C10 amended: a call whose incoming records carry no hash or the digest of
\* their own fields keeps every stored hash equal to H(version, originatorId,
\* value) of its record; the store starts empty, so this holds after any
\* sequence of such calls.
C10_StoredHashOfTrustedInput ==
  (HashesRight(prevStore) /\ HashesRight(keyVals)) => HashesRight(kvStore)

\* C10 witness: a record that came without a hash was stored, and the stored
\* copy has a hash.
C10_Witness ==
  /\ pc = "returned"
  /\ HashesRight(prevStore)
  /\ \E k \in DOMAIN keyVals \cap DOMAIN kvUpdates :
       /\ has_value(keyVals[k].value)
       /\ ~has_value(keyVals[k].hash)
       /\ has_value(kvStore[k].hash)

\* C3: mergeKeyValues is idempotent: after mergeKeyValues(store, batch) has
\* returned a delta, merging the same batch again, or merging the returned
\* delta, returns an empty delta and leaves every stored record unchanged
\* (and the second call returns).
C3_RemergeChangesNothing ==
  /\ pc # "aborted again"
  /\ pc = "merged again" => (kvUpdates = EmptyMap /\ kvStore = prevStore)

\* C3 witness: a publication whose record the store holds after the first
\* call has been merged a second time.
C3_Witness ==
  /\ pc = "merged again"
  /\ keyVals # EmptyMap
  /\ \A k \in DOMAIN keyVals :
       k \in DOMAIN kvStore /\ kvStore[k].ttlVersion = keyVals[k].ttlVersion

\* C7: merging a value-absent (TTL-only) record never changes the stored
\* value, version, originatorId or hash of any key; at most the ttl and the
\* ttlVersion of the addressed key change, and no key is added or removed.
C7_TtlOnlyKeepsValue ==
  (pc = "returned" /\ \A k \in DOMAIN keyVals : ~has_value(keyVals[k].value))
  => /\ DOMAIN kvStore = DOMAIN prevStore
     /\ \A k \in DOMAIN kvStore :
          /\ kvStore[k].value = prevStore[k].value
          /\ kvStore[k].version = prevStore[k].version
          /\ kvStore[k].originatorId = prevStore[k].originatorId
          /\ kvStore[k].hash = prevStore[k].hash
          /\ k \notin DOMAIN keyVals => kvStore[k] = prevStore[k]

\* C7 witness: a TTL-only record changed the ttl and the ttlVersion of its
\* key while the store holds a second key.
C7_Witness ==
  /\ pc = "returned"
  /\ \E k \in DOMAIN keyVals :
       /\ ~has_value(keyVals[k].value)
       /\ k \in DOMAIN prevStore
       /\ kvStore[k].ttl # prevStore[k].ttl
       /\ kvStore[k].ttlVersion > prevStore[k].ttlVersion
       /\ \E k2 \in DOMAIN kvStore : k2 \notin DOMAIN keyVals

\* the stores m1 and m2 hold the same keys with the same version,
\* originatorId, value and ttlVersion
SameRecords(m1, m2) ==
  /\ DOMAIN m1 = DOMAIN m2
  /\ \A k \in DOMAIN m1 :
       /\ m1[k].version = m2[k].version
       /\ m1[k].originatorId = m2[k].originatorId
       /\ m1[k].value = m2[k].value
       /\ m1[k].ttlVersion = m2[k].ttlVersion

\* every record of publication b has a value
AllWithValue(b) == \A k \in DOMAIN b : has_value(b[k].value)

\* C2 as claimed: for any store S and any two batches B1 and B2, merging B1
\* then B2 leaves the same version, originatorId, value and ttlVersion for
\* every key as merging B2 then B1.
C2_OrderIrrelevantAsClaimed ==
  pc = "both orders done" => SameRecords(storeAB, storeBA)

\* C2 amended: the same for any two batches of value-bearing records with
\* version >= 1 (every record of this specification has version >= 1).
C2_OrderIrrelevantWithValues ==
  (pc = "both orders done" /\ AllWithValue(first) /\ AllWithValue(second))
  => SameRecords(storeAB, storeBA)

\* C2 witness: B1 and B2 carry the same key with the same version and
\* originatorId and different values, both orders are done, and both copies
\* hold the greater value.
C2_Witness ==
  /\ pc = "both orders done"
  /\ \E k \in DOMAIN first \cap DOMAIN second :
       /\ has_value(first[k].value) /\ has_value(second[k].value)
       /\ first[k].version = second[k].version
       /\ first[k].originatorId = second[k].originatorId
       /\ LexLess(first[k].value[1], second[k].value[1])
       /\ k \in DOMAIN storeAB /\ storeAB[k].value = second[k].value
       /\ k \in DOMAIN storeBA /\ storeBA[k].value = second[k].value
       /\ k \notin DOMAIN kvStore

\* the stores m1 and m2 hold the same keys with the same version,
\* originatorId and value
SameValues(m1, m2) ==
  /\ DOMAIN m1 = DOMAIN m2
  /\ \A k \in DOMAIN m1 : Triple(m1[k]) = Triple(m2[k])

\* C4 as claimed: once no message remains in flight, all stores contain
\* identical record sets.
C4_QuiescentStoresIdentical ==
  inflight = {} => \A n1, n2 \in Nodes : stores[n1] = stores[n2]

\* C4 amended: once no message remains in flight, all stores hold the same
\* keys with the same (version, originatorId, value); ttl and ttlVersion may
\* differ.
C4_QuiescentStoresSameValues ==
  inflight = {} => \A n1, n2 \in Nodes : SameValues(stores[n1], stores[n2])

\* C4 witness: two publications were set, nothing is in flight, and the two
\* ends of the line hold the key with the same value and different ttlVersion.
C4_Witness ==
  /\ pc = "gossip"
  /\ originated = 2
  /\ inflight = {}
  /\ \E k \in Keys :
       /\ \A n \in Nodes : k \in DOMAIN stores[n]
       /\ stores[1][k].ttlVersion # stores[3][k].ttlVersion
       /\ stores[1][k].value = stores[3][k].value

\* C11: the delta mergeKeyValues returns contains a key if and only if the
\* stored record of that key differs between before and after the call, and
\* each entry of the delta is the incoming record of its key, not the stored
\* copy.
C11_DeltaIffChanged ==
  pc = "returned" =>
    /\ \A k \in DOMAIN kvStore \cup DOMAIN prevStore \cup DOMAIN keyVals :
         (k \in DOMAIN kvUpdates) <=> ~EntryUnchanged(k)
    /\ \A k \in DOMAIN kvUpdates :
         k \in DOMAIN keyVals /\ kvUpdates[k] = keyVals[k]

\* C11 witness: a record without a hash replaced a stored record; the delta
\* carries it as it came and the stored copy, with its hash, differs from it.
C11_Witness ==
  /\ pc = "returned"
  /\ \E k \in DOMAIN kvUpdates \cap DOMAIN prevStore :
       /\ has_value(keyVals[k].value)
       /\ ~has_value(kvUpdates[k].hash)
       /\ has_value(kvStore[k].hash)
       /\ kvStore[k] # prevStore[k]

\* C12: for a given store and incoming batch the final store does not depend
\* on the order in which the entries of the batch are iterated: every
\* iteration order of keyVals leaves the store the call left.
C12_IterationOrderIrrelevant ==
  pc = "returned" =>
    \A order \in Orders(keyVals) :
      mergeKeyValues(prevStore, keyVals, order, filters, endRead).kvStore
        = kvStore

\* C12 witness: a publication of two entries was merged and both entries
\* updated the store.
C12_Witness ==
  /\ pc = "returned"
  /\ Cardinality(DOMAIN keyVals) = 2
  /\ DOMAIN kvUpdates = DOMAIN keyVals
  /\ \A k \in DOMAIN keyVals : kvStore[k].ttlVersion = keyVals[k].ttlVersion

\* (version, originatorId, value, ttlVersion) of r1 is below that of r2 in
\* lexicographic order, both with a value
TupleLess(r1, r2) ==
  \/ TripleLess(r1, r2)
  \/ Triple(r1) = Triple(r2) /\ r1.ttlVersion < r2.ttlVersion

\* C13: every update mergeKeyValues applies and reports strictly increases
\* the stored (version, originatorId, value, ttlVersion) of its key in
\* lexicographic order, and the reported record carries the tuple now stored
\* (the value when it has one), so the deltas of one key are monotonic.
C13_ReportedUpdateIncreases ==
  pc = "returned" =>
    \A k \in DOMAIN kvUpdates :
      /\ k \in DOMAIN kvStore
      /\ k \in DOMAIN prevStore => TupleLess(prevStore[k], kvStore[k])
      /\ kvUpdates[k].version = kvStore[k].version
      /\ kvUpdates[k].originatorId = kvStore[k].originatorId
      /\ kvUpdates[k].ttlVersion = kvStore[k].ttlVersion
      /\ has_value(kvUpdates[k].value) => kvUpdates[k].value = kvStore[k].value

\* C13 witness: a reported update raised the originatorId of a stored key at
\* the same version while its ttlVersion went down.
C13_Witness ==
  /\ pc = "returned"
  /\ \E k \in DOMAIN kvUpdates \cap DOMAIN prevStore :
       /\ kvStore[k].version = prevStore[k].version
       /\ LexLess(prevStore[k].originatorId, kvStore[k].originatorId)
       /\ kvStore[k].ttlVersion < prevStore[k].ttlVersion

\* C14 as claimed: for a given key, as long as the stored version and
\* originatorId stay the same the stored ttlVersion never decreases.
C14_TtlVersionMonotoneAsClaimed ==
  \A k \in DOMAIN prevStore \cap DOMAIN kvStore :
    ( /\ kvStore[k].version = prevStore[k].version
      /\ kvStore[k].originatorId = prevStore[k].originatorId )
    => kvStore[k].ttlVersion >= prevStore[k].ttlVersion

\* C14 amended: for a given key, as long as the stored version, originatorId
\* and value stay the same the stored ttlVersion never decreases.
C14_TtlVersionMonotoneSameValue ==
  \A k \in DOMAIN prevStore \cap DOMAIN kvStore :
    ( /\ kvStore[k].version = prevStore[k].version
      /\ kvStore[k].originatorId = prevStore[k].originatorId
      /\ kvStore[k].value = prevStore[k].value )
    => kvStore[k].ttlVersion >= prevStore[k].ttlVersion

\* C14 witness: a record with the stored version, originatorId and value, a
\* valid ttl and a lower ttlVersion was merged without a filter, and the
\* stored ttlVersion stayed.
C14_Witness ==
  /\ pc = "returned"
  /\ filters = None
  /\ \E k \in DOMAIN keyVals \cap DOMAIN prevStore :
       /\ Triple(keyVals[k]) = Triple(prevStore[k])
       /\ GoodTtl(keyVals[k])
       /\ keyVals[k].ttlVersion < prevStore[k].ttlVersion
       /\ kvStore[k].ttlVersion = prevStore[k].ttlVersion

\* the key matches one of the patterns of the list (anchored at its start)
MatchesOnePattern(patterns, key) ==
  \E i \in DOMAIN patterns :
    /\ Len(patterns[i]) <= Len(key)
    /\ \A j \in 1..Len(patterns[i]) : key[j] = patterns[i][j]

\* C15: under the ANY (OR) operator keyMatch(key, record) is true if and only
\* if both lists are empty, or the key matches one of the prefix patterns, or
\* the originatorId of the record is in the originator set.
C15_KeyMatchAny ==
  (pc = "keyMatch returned" /\ args.filters.filterOperator = "OR") =>
    ( result[1] <=>
        \/ args.filters.keyPrefixList = <<>> /\ args.filters.originatorIds = {}
        \/ MatchesOnePattern(args.filters.keyPrefixList, args.key)
        \/ args.value.originatorId \in args.filters.originatorIds )

\* C15 witness: an OR filter with patterns that do not match the key matched
\* a record by its originatorId.
C15_Witness ==
  /\ pc = "keyMatch returned"
  /\ args.filters.filterOperator = "OR"
  /\ args.filters.keyPrefixList # <<>>
  /\ ~MatchesOnePattern(args.filters.keyPrefixList, args.key)
  /\ args.value.originatorId \in args.filters.originatorIds
  /\ result = Some(TRUE)

\* C16: under the ALL operator keyMatch(key, record) is true if and only if
\* (the prefix list is empty or the key matches one pattern) and (the
\* originator set is empty or the originatorId of the record is in it).
C16_KeyMatchAll ==
  (pc = "keyMatch returned" /\ args.filters.filterOperator = "AND") =>
    ( result[1] <=>
        /\ \/ args.filters.keyPrefixList = <<>>
           \/ MatchesOnePattern(args.filters.keyPrefixList, args.key)
        /\ \/ args.filters.originatorIds = {}
           \/ args.value.originatorId \in args.filters.originatorIds )

\* C16 witness: an AND filter with no pattern and a non-empty originator set
\* matched a record of an originator of the set.
C16_Witness ==
  /\ pc = "keyMatch returned"
  /\ args.filters.filterOperator = "AND"
  /\ args.filters.keyPrefixList = <<>>
  /\ args.filters.originatorIds # {}
  /\ args.value.originatorId \in args.filters.originatorIds
  /\ result = Some(TRUE)

\* C17: when a filter is given to mergeKeyValues, an incoming record the
\* filter does not match is never written to the store and never appears in
\* the returned delta, whatever its version, originatorId, value or
\* ttlVersion; the call does not read the store for it either.
C17_FilteredNeverWritten ==
  \A k \in DOMAIN keyVals :
    (has_value(filters) /\ ~keyMatch(filters[1], k, keyVals[k]))
    => /\ EntryUnchanged(k)
       /\ k \notin DOMAIN kvUpdates
       /\ pc # "aborted"

\* C17 witness: a filter rejected a value-bearing record with a valid ttl and
\* a version above the stored one.
C17_Witness ==
  /\ pc = "returned"
  /\ has_value(filters)
  /\ \E k \in DOMAIN keyVals \cap DOMAIN prevStore :
       /\ ~keyMatch(filters[1], k, keyVals[k])
       /\ has_value(keyVals[k].value)
       /\ GoodTtl(keyVals[k])
       /\ keyVals[k].version > prevStore[k].version
       /\ kvStore[k] = prevStore[k]

\* the configured list, or the empty list when none is configured
Configured(opt) == IF opt = <<>> THEN <<>> ELSE opt[1]

\* C18: when the configuration sets leaf node, getKvStoreFilters returns a
\* filter with ANY semantics whose prefix list is the configured key prefixes
\* plus the prefix-allocation marker and the node-label-range prefix and whose
\* originator set is the configured originator ids plus the local node name;
\* hence every record originated by the local node is admitted, whatever
\* filter operator is configured.
C18_LeafFilter ==
  /\ ( /\ pc = "getKvStoreFilters returned"
       /\ args.config.set_leaf_node = <<TRUE>> )
     => /\ Len(result[1]) = 1
        /\ result[1][1].filterOperator = "OR"
        /\ result[1][1].keyPrefixList =
             Configured(args.config.key_prefix_filters)
               \o <<kPrefixAllocMarker, kNodeLabelRangePrefix>>
        /\ \A id \in Originators :
             id \in result[1][1].originatorIds <=>
               \/ id = args.config.node_name
               \/ \E i \in DOMAIN Configured(args.config.key_originator_id_filters) :
                    Configured(args.config.key_originator_id_filters)[i] = id
  /\ ( /\ pc = "leaf keyMatch returned"
       /\ args.value.originatorId = args.config.node_name )
     => result = <<TRUE>>

\* C18 witness: a leaf node configured with the AND operator, a prefix and
\* another originator admitted a record of its own whose key is under none
\* of the prefixes.
C18_Witness ==
  /\ pc = "leaf keyMatch returned"
  /\ args.config.filter_operator = <<"AND">>
  /\ args.config.key_prefix_filters # <<>>
  /\ args.config.key_originator_id_filters = <<<<<<2>>, <<2>>>>>>
  /\ args.config.node_name # <<2>>
  /\ args.value.originatorId = args.config.node_name
  /\ \A i \in DOMAIN args.filters.keyPrefixList :
       Head(args.filters.keyPrefixList[i]) # Head(args.key)
  /\ result = <<TRUE>>

\* C19: for every pair of records compareValues returns only one of the four
\* values -2, -1, 0, 1.
C19_CompareValuesRange ==
  pc = "compareValues returned" => result[1] \in {-2, -1, 0, 1}

\* the number r has the sign of the lexicographic comparison of a with b
LexSign(r, a, b) ==
  /\ r < 0 <=> LexLess(a, b)
  /\ r = 0 <=> a = b
  /\ r > 0 <=> LexLess(b, a)

\* C20: compareValues(a, b) decides in this order: if the versions differ,
\* the sign of the version comparison; else if the originatorIds differ, the
\* lexicographic sign; else if both hashes are present and equal, -1/0/1 by
\* ttlVersion; else if both values are present, the lexicographic comparison
\* of the value bytes; else -2 (unknown).
C20_CompareValuesOrder ==
  pc = "compareValues returned" =>
    IF args.v1.version # args.v2.version
    THEN result[1] = Sign(args.v1.version - args.v2.version)
    ELSE IF args.v1.originatorId # args.v2.originatorId
    THEN /\ result[1] \in {-1, 1}
         /\ LexSign(result[1], args.v1.originatorId, args.v2.originatorId)
    ELSE IF /\ args.v1.hash # <<>>
            /\ args.v2.hash # <<>>
            /\ args.v1.hash = args.v2.hash
    THEN result[1] = Sign(args.v1.ttlVersion - args.v2.ttlVersion)
    ELSE IF args.v1.value # <<>> /\ args.v2.value # <<>>
    THEN LexSign(result[1], args.v1.value[1], args.v2.value[1])
    ELSE result[1] = -2

\* C20 witness: two records with the same version and originatorId, equal
\* hashes and different values were compared, and the greater ttlVersion of
\* the record with the smaller value decided.
C20_Witness ==
  /\ pc = "compareValues returned"
  /\ args.v1.version = args.v2.version
  /\ args.v1.originatorId = args.v2.originatorId
  /\ args.v1.hash # <<>>
  /\ args.v1.hash = args.v2.hash
  /\ args.v1.value # <<>> /\ args.v2.value # <<>>
  /\ LexLess(args.v1.value[1], args.v2.value[1])
  /\ args.v1.ttlVersion > args.v2.ttlVersion
  /\ result = <<1>>

\* the keys of the list of keys
KeysOf(list) == {list[i] : i \in DOMAIN list}

\* key k is in keyVals of the publication, with the record of mine
SentFrom(pub, mine, k) == k \in DOMAIN pub.keyVals /\ pub.keyVals[k] = mine[k]

\* C21: dumpDifference(area, mine, theirs) classifies every key of
\* mine \cup theirs: only in mine -> in keyVals with the record of mine; only
\* in theirs -> in tobeUpdatedKeys; in both with compareValues 1 -> keyVals
\* only; -1 -> tobeUpdatedKeys only; 0 -> neither; -2 -> both.  No other key
\* appears in the result, and the area of the result is the area argument.
C21_DumpDifferenceClassifies ==
  pc = "dumpDifference returned" =>
    LET pub == result[1]
        mine == args.myKeyVal
        theirs == args.reqKeyVal
        asked == KeysOf(pub.tobeUpdatedKeys)
    IN /\ pub.area = args.area
       /\ DOMAIN pub.keyVals \cup asked \subseteq DOMAIN mine \cup DOMAIN theirs
       /\ \A k \in DOMAIN mine \ DOMAIN theirs :
            SentFrom(pub, mine, k) /\ k \notin asked
       /\ \A k \in DOMAIN theirs \ DOMAIN mine :
            k \notin DOMAIN pub.keyVals /\ k \in asked
       /\ \A k \in DOMAIN mine \cap DOMAIN theirs :
            LET c == compareValuesIn(args.build, mine[k], theirs[k])
            IN /\ c = 1 => (SentFrom(pub, mine, k) /\ k \notin asked)
               /\ c = -1 => (k \notin DOMAIN pub.keyVals /\ k \in asked)
               /\ c = 0 => (k \notin DOMAIN pub.keyVals /\ k \notin asked)
               /\ c = -2 => (SentFrom(pub, mine, k) /\ k \in asked)

\* C21 witness: one key is in both maps with an entry of a hash dump on one
\* side and another hash on the other (compareValues -2) and is both sent and
\* asked for, and the other key is only in mine and is sent.
C21_Witness ==
  /\ pc = "dumpDifference returned"
  /\ \E k \in DOMAIN args.myKeyVal \cap DOMAIN args.reqKeyVal :
       /\ args.myKeyVal[k].value = <<>>
       /\ args.myKeyVal[k].version = args.reqKeyVal[k].version
       /\ args.myKeyVal[k].hash # args.reqKeyVal[k].hash
       /\ k \in DOMAIN result[1].keyVals
       /\ k \in KeysOf(result[1].tobeUpdatedKeys)
  /\ \E k \in DOMAIN args.myKeyVal \ DOMAIN args.reqKeyVal :
       k \in DOMAIN result[1].keyVals

\* C22: for any two stores A and B holding full records, after one three-way
\* sync round A and B hold equal records (same version, originatorId and
\* value) for every key of either store.
C22_SyncRoundEqualises ==
  pc = "synced" => SameValues(stores.A, stores.B)

\* the flood rate of the configuration has a number that is not positive
BadFloodRate(conf) ==
  /\ conf.flood_rate # <<>>
  /\ \/ conf.flood_rate[1].flood_msg_per_sec <= 0
     \/ conf.flood_rate[1].flood_msg_burst_size <= 0

\* two area entries of the configuration share an area id
DuplicateArea(conf) ==
  Cardinality({conf.areas[i] : i \in DOMAIN conf.areas}) < Len(conf.areas)

\* C23: constructing a Config whose kvstore flood rate has
\* flood_msg_per_sec <= 0 or flood_msg_burst_size <= 0 fails and no Config
\* is produced; the error is an out-of-range error (in a configuration that
\* is valid otherwise: its area ids are distinct).
C23_BadFloodRateThrows ==
  (pc = "Config done" /\ BadFloodRate(args.conf)) =>
    /\ ~result[1].constructed
    /\ ~DuplicateArea(args.conf) => result[1].thrown = "std::out_of_range"

\* C23 witness: a flood rate with a positive flood_msg_per_sec and a
\* flood_msg_burst_size of 0 was rejected with std::out_of_range.
C23_Witness ==
  /\ pc = "Config done"
  /\ args.conf.flood_rate # <<>>
  /\ args.conf.flood_rate[1].flood_msg_per_sec > 0
  /\ args.conf.flood_rate[1].flood_msg_burst_size = 0
  /\ result[1].constructed = FALSE
  /\ result[1].thrown = "std::out_of_range"

\* C24: constructing a Config in which two area entries share the same area
\* id fails, with an invalid-argument error, while a configuration with
\* distinct area ids constructs and exposes exactly the configured areas (in
\* a configuration that is valid otherwise: its flood rate is absent or
\* positive).
C24_DuplicateAreaThrows ==
  pc = "Config done" =>
    /\ DuplicateArea(args.conf) =>
         /\ ~result[1].constructed
         /\ ~BadFloodRate(args.conf) =>
              result[1].thrown = "std::invalid_argument"
    /\ ( /\ ~DuplicateArea(args.conf)
         /\ ~BadFloodRate(args.conf)
         /\ args.conf.areas # <<>> )
       => /\ result[1].constructed
          /\ \A a \in AreaIds :
               a \in result[1].areas <=>
                 \E i \in DOMAIN args.conf.areas : args.conf.areas[i] = a

\* C24 witness: three areas of which the first and the last share their id
\* were rejected with std::invalid_argument.
C24_Witness ==
  /\ pc = "Config done"
  /\ Len(args.conf.areas) = 3
  /\ args.conf.areas[1] = args.conf.areas[3]
  /\ args.conf.areas[1] # args.conf.areas[2]
  /\ result[1].constructed = FALSE
  /\ result[1].thrown = "std::invalid_argument"

\* the entry of key k in keyVals reaches the comparisons of the stored
\* originatorId, value and ttlVersion (lines 95-117): it passes the filter,
\* its ttl is valid, it has a value and its version is myVersion
ReachesComparison(k) ==
  /\ PassesFilter(k)
  /\ GoodTtl(keyVals[k])
  /\ keyVals[k].value # <<>>
  /\ keyVals[k].version =
       IF k \in DOMAIN prevStore THEN prevStore[k].version ELSE 0

\* C25: for every incoming batch (records with version 0 and keys absent
\* from the store included) mergeKeyValues only reads the stored record of a
\* key that is present: whenever the equal-version comparison is reached the
\* key is in the store, and the process does not abort on a CHECK or on the
\* read.
C25_OnlyStoredRecordsRead ==
  /\ pc # "aborted"
  /\ pc = "returned" =>
       \A k \in DOMAIN keyVals : ReachesComparison(k) => k \in DOMAIN prevStore

\* the record prev with the ttl and the ttlVersion of inc
WithTtlOf(prev, inc) ==
  [version |-> prev.version, originatorId |-> prev.originatorId,
   value |-> prev.value, ttlVersion |-> inc.ttlVersion, ttl |-> inc.ttl,
   hash |-> prev.hash]

\* what a value-bearing record keyVals[k] with the stored version,
\* originatorId and value does: with a greater ttlVersion only the stored ttl
\* and ttlVersion change and the key is reported, otherwise nothing changes
\* and the key is not reported
SameValueOutcome(k) ==
  IF keyVals[k].ttlVersion > prevStore[k].ttlVersion
  THEN /\ k \in DOMAIN kvStore
       /\ kvStore[k] = WithTtlOf(prevStore[k], keyVals[k])
       /\ k \in DOMAIN kvUpdates
  ELSE /\ kvStore = prevStore
       /\ k \notin DOMAIN kvUpdates

\* C26 as claimed: when a value-bearing incoming record has the same version,
\* originatorId and value bytes as the stored record, mergeKeyValues updates
\* only the stored ttl and ttlVersion and reports the key if the incoming
\* ttlVersion is strictly greater, and otherwise changes nothing and does not
\* report the key.
C26_SameValueAsClaimed ==
  \A k \in DOMAIN keyVals \cap DOMAIN prevStore :
    ( /\ pc = "returned"
      /\ keyVals[k].value # <<>>
      /\ Triple(keyVals[k]) = Triple(prevStore[k]) )
    => SameValueOutcome(k)

\* C26 amended: the same for an incoming record with a valid ttl that passes
\* the filter of the call (when one is given).
C26_SameValueValidAndPassing ==
  \A k \in DOMAIN keyVals \cap DOMAIN prevStore :
    ( /\ pc = "returned"
      /\ keyVals[k].value # <<>>
      /\ Triple(keyVals[k]) = Triple(prevStore[k])
      /\ GoodTtl(keyVals[k])
      /\ PassesFilter(k) )
    => SameValueOutcome(k)

\* C26 witness: a value-bearing record with the stored version, originatorId
\* and value, a greater ttlVersion, another ttl and another hash was merged;
\* the stored ttl is the incoming one and the stored hash is the old one.
C26_Witness ==
  /\ pc = "returned"
  /\ \E k \in DOMAIN keyVals \cap DOMAIN prevStore :
       /\ keyVals[k].value # <<>>
       /\ Triple(keyVals[k]) = Triple(prevStore[k])
       /\ keyVals[k].ttlVersion > prevStore[k].ttlVersion
       /\ keyVals[k].ttl # prevStore[k].ttl
       /\ keyVals[k].hash # prevStore[k].hash
       /\ kvStore[k].ttl = keyVals[k].ttl
       /\ kvStore[k].hash = prevStore[k].hash
       /\ k \in DOMAIN kvUpdates

\* ---------------------------------------------------------------------
\* A pair of records, compared in both directions by compareValues and, when
\* both are full records, merged into a store that holds the other one
\* (specification SpecPair)

PairValueBytes == Values \cup {<<2, 1, 1>>}

\* the records of a pair: with or without value, with or without the hash of
\* their own fields, with a finite or the infinite ttl
PairRecords ==
  UNION {{[version |-> v, originatorId |-> o, value |-> val, ttlVersion |-> tv,
           ttl |-> t, hash |-> h] :
          h \in {None, Some(generateHash(v, o, val))}} :
         v \in {1, 2}, o \in Originators,
         val \in {None} \cup {Some(b) : b \in PairValueBytes},
         tv \in {0, 1}, t \in {1, kTtlInfinity}}

\* a record as a store holds it after a merge of a value-bearing record: with
\* its value and the hash of its fields
FullRecord(r) ==
  /\ has_value(r.value)
  /\ r.hash = Some(generateHash(r.version, r.originatorId, r.value))

PairKey == <<1, 1>>

\* the store that results from merging record inc into a store that holds
\* record cur under PairKey
MergedOver(cur, inc, ub) ==
  mergeKeyValues([k \in {PairKey} |-> cur], [k \in {PairKey} |-> inc],
                 <<PairKey>>, None, ub).kvStore

InitPair ==
  /\ pc = "pair"
  /\ InitCallUnused
  /\ InitOrderUnused
  /\ InitGossipUnused
  /\ \E r1 \in PairRecords, r2 \in PairRecords, b \in StringCompareBuilds :
       args = [a |-> r1, b |-> r2, build |-> b]
  /\ result = None

\* compareValues(a, b)
CompareAB ==
  /\ pc = "pair"
  /\ pc' = "a against b"
  /\ result' = <<compareValuesIn(args.build, args.a, args.b)>>
  /\ UNCHANGED <<callVars, endRead, orderVars, gossipVars, args>>

\* compareValues(b, a)
CompareBA ==
  /\ pc = "a against b"
  /\ pc' = "b against a"
  /\ result' = Append(result, compareValuesIn(args.build, args.b, args.a))
  /\ UNCHANGED <<callVars, endRead, orderVars, gossipVars, args>>

\* mergeKeyValues of {PairKey: a} into the store {PairKey: b}
MergeAIntoB ==
  /\ pc = "b against a"
  /\ FullRecord(args.a)
  /\ FullRecord(args.b)
  /\ pc' = "a into b"
  /\ storeAB' = MergedOver(args.b, args.a, endRead)
  /\ UNCHANGED <<callVars, endRead, first, second, storeBA, gossipVars, fnVars>>

\* mergeKeyValues of {PairKey: b} into the store {PairKey: a}
MergeBIntoA ==
  /\ pc = "a into b"
  /\ pc' = "b into a"
  /\ storeBA' = MergedOver(args.a, args.b, endRead)
  /\ UNCHANGED <<callVars, endRead, first, second, storeAB, gossipVars, fnVars>>

NextPair == CompareAB \/ CompareBA \/ MergeAIntoB \/ MergeBIntoA

SpecPair == InitPair /\ [][NextPair]_vars

\* a result of compareValues that names its second argument the better record
SecondWins(rc) == rc < 0 /\ rc # -2

\* C27: for any two records a and b, compareValues(a, b) and
\* compareValues(b, a) name the same winner: one is positive exactly when the
\* other is negative, one is 0 exactly when the other is 0, and one is -2
\* (unknown) exactly when the other is -2.
\* (-2 is the result "unknown", so a negative result that names the second
\* record the winner is one below 0 other than -2.)
C27_CompareValuesAntisymmetric ==
  pc = "b against a" =>
    /\ (result[1] > 0) <=> SecondWins(result[2])
    /\ (result[2] > 0) <=> SecondWins(result[1])
    /\ (result[1] = 0) <=> (result[2] = 0)
    /\ (result[1] = -2) <=> (result[2] = -2)

\* merging a into the store that holds b changed that store
AChangedB == storeAB # [k \in {PairKey} |-> args.b]

\* merging b into the store that holds a changed that store
BChangedA == storeBA # [k \in {PairKey} |-> args.a]

\* C30: compareValues and mergeKeyValues agree on full records with correct
\* hashes: compareValues(a, b) is positive if and only if merging a into a
\* store holding b changes the store and merging b into a store holding a
\* changes nothing, and compareValues(a, b) is 0 if and only if neither merge
\* changes its store.
C30_CompareAgreesWithMerge ==
  pc = "b into a" =>
    /\ (result[1] > 0) <=> (AChangedB /\ ~BChangedA)
    /\ (result[1] = 0) <=> (~AChangedB /\ ~BChangedA)

\* C30 witness: two full records with the same version and originatorId and
\* different values, whose comparison is positive, were merged both ways;
\* a replaced b and b left a alone.
C30_Witness ==
  /\ pc = "b into a"
  /\ args.a.version = args.b.version
  /\ args.a.originatorId = args.b.originatorId
  /\ args.a.value # args.b.value
  /\ result[1] > 0
  /\ storeAB[PairKey] = args.a
  /\ storeBA[PairKey] = args.a

\* two records of one key differ in version, originatorId, value bytes or,
\* with equal hashes, ttlVersion
Divergent(r1, r2) ==
  \/ r1.version # r2.version
  \/ r1.originatorId # r2.originatorId
  \/ /\ has_value(r1.value)
     /\ has_value(r2.value)
     /\ r1.value # r2.value
  \/ /\ has_value(r1.hash)
     /\ has_value(r2.hash)
     /\ r1.hash = r2.hash
     /\ r1.ttlVersion # r2.ttlVersion

\* C28: for every key present in both maps given to dumpDifference whose two
\* records differ in version, originatorId, value bytes or (with equal hashes)
\* ttlVersion, the key is placed in keyVals or in tobeUpdatedKeys: no
\* differing key is left out of both.
C28_NoDivergentKeySkipped ==
  pc = "dumpDifference returned" =>
    \A k \in DOMAIN args.myKeyVal \cap DOMAIN args.reqKeyVal :
      Divergent(args.myKeyVal[k], args.reqKeyVal[k]) =>
        \/ k \in DOMAIN result[1].keyVals
        \/ k \in KeysOf(result[1].tobeUpdatedKeys)

\* C29: for any store and any two batches, value-absent TTL-refresh records
\* included, the final version, originatorId and value of every key are the
\* same whichever batch is merged first; only ttl and ttlVersion can depend
\* on the order of the merges.
C29_TripleOrderIndependent ==
  pc = "both orders done" => SameValues(storeAB, storeBA)

\* C29 witness: one batch carries a value-bearing record that replaces the
\* stored one and the other a TTL refresh of the stored record; the two
\* orders end with the same version, originatorId and value and with
\* different ttlVersions.
C29_Witness ==
  /\ pc = "both orders done"
  /\ \E k \in DOMAIN first \cap DOMAIN second \cap DOMAIN storeAB :
       /\ has_value(first[k].value)
       /\ ~has_value(second[k].value)
       /\ k \in DOMAIN storeBA
       /\ Triple(storeAB[k]) = Triple(first[k])
       /\ Triple(storeBA[k]) = Triple(first[k])
       /\ storeAB[k].ttlVersion # storeBA[k].ttlVersion

\* C31: mergeKeyValues changes only records of keys that occur in the
\* incoming batch and never removes a key: every key stored before the call
\* is still stored after it, the records of keys outside the batch are the
\* same before and after, and no key outside the store and the batch appears.
\* (The batch is an argument the call only reads.)
C31_OnlyBatchKeysChange ==
  pc = "returned" =>
    /\ DOMAIN prevStore \subseteq DOMAIN kvStore
    /\ DOMAIN kvStore \subseteq DOMAIN prevStore \cup DOMAIN keyVals
    /\ \A k \in DOMAIN prevStore \ DOMAIN keyVals : kvStore[k] = prevStore[k]

\* C31 witness: the store held one key, a batch with the other key only was
\* merged and stored, and the record of the first key is as it was.
C31_Witness ==
  /\ pc = "returned"
  /\ \E k1 \in DOMAIN prevStore, k2 \in DOMAIN keyVals :
       /\ k1 \notin DOMAIN keyVals
       /\ k2 \notin DOMAIN prevStore
       /\ k2 \in DOMAIN kvStore
       /\ kvStore[k1] = prevStore[k1]

\* C32: after any sequence of mergeKeyValues calls that starts from an empty
\* store every stored record has its value and its hash: a record without
\* value is never stored and a record stored without an incoming hash gets
\* one.
C32_StoredRecordsComplete ==
  \A k \in DOMAIN kvStore :
    /\ has_value(kvStore[k].value)
    /\ has_value(kvStore[k].hash)

\* C32 witness: a value-bearing record without hash was merged and stored
\* with its value and with the hash of its version, originatorId and value.
C32_Witness ==
  /\ pc = "returned"
  /\ \E k \in DOMAIN keyVals \cap DOMAIN kvUpdates :
       /\ has_value(keyVals[k].value)
       /\ ~has_value(keyVals[k].hash)
       /\ kvStore[k].value = keyVals[k].value
       /\ kvStore[k].hash =
            Some(generateHash(keyVals[k].version, keyVals[k].originatorId,
                              keyVals[k].value))

\* ---------------------------------------------------------------------
\* The filters of getKvStoreFilters(config) given to mergeKeyValues
\* (specification SpecIngress)

\* the records received: value-bearing, of either originator, with every
\* class of ttl
IngressRecords ==
  {[version |-> 1, originatorId |-> o, value |-> Some(<<2>>), ttlVersion |-> 0,
    ttl |-> t, hash |-> None] : o \in Originators, t \in Ttls}

\* publications of one entry under either key
IngressBatches == {[x \in {k} |-> r] : k \in MapKeys, r \in IngressRecords}

InitIngress ==
  /\ pc = "getKvStoreFilters"
  /\ InitCallUnused
  /\ InitOrderUnused
  /\ InitGossipUnused
  /\ \E c \in Configs : args = [config |-> c]
  /\ result = None

\* mergeKeyValues(kvStore, keyVals, filters) with the filters that
\* getKvStoreFilters returned, on the empty store
IngressMerge ==
  /\ pc = "getKvStoreFilters returned"
  /\ \E b \in IngressBatches :
       \E order \in Orders(b) :
         LET r == mergeKeyValues(kvStore, b, order, result[1], endRead)
         IN /\ kvStore' = r.kvStore
            /\ kvUpdates' = r.kvUpdates
            /\ keyVals' = b
            /\ pc' = IF r.aborted THEN "aborted" ELSE "returned"
  /\ prevStore' = kvStore
  /\ filters' = result[1]
  /\ UNCHANGED <<endRead, orderVars, gossipVars, fnVars>>

NextIngress == GetKvStoreFiltersCall \/ IngressMerge

SpecIngress == InitIngress /\ [][NextIngress]_vars

\* C33: when the configuration does not set leaf node, getKvStoreFilters
\* returns no filter even if key prefix filters or originator-id filters are
\* configured, so mergeKeyValues with that result admits every record with a
\* valid ttl whatever its key and originator: merged into the empty store the
\* record is stored and reported.
C33_NoFilterUnlessLeaf ==
  (pc = "returned" /\ ~value_or(args.config.set_leaf_node, FALSE)) =>
    /\ result[1] = None
    /\ \A k \in DOMAIN keyVals :
         GoodTtl(keyVals[k]) =>
           /\ k \in DOMAIN kvStore
           /\ kvStore[k] = StoredCopy(keyVals[k])
           /\ k \in DOMAIN kvUpdates

\* C33 witness: the configuration sets leaf node to false, a key prefix
\* filter and an originator-id filter; a record with a valid ttl whose key
\* has none of the configured prefixes and whose originator is neither
\* configured nor the node itself was merged and stored.
C33_Witness ==
  /\ pc = "returned"
  /\ args.config.set_leaf_node = Some(FALSE)
  /\ has_value(args.config.key_prefix_filters)
  /\ has_value(args.config.key_originator_id_filters)
  /\ \E k \in DOMAIN keyVals \cap DOMAIN kvStore :
       /\ \A i \in DOMAIN args.config.key_prefix_filters[1] :
            ~IsPrefix(args.config.key_prefix_filters[1][i], k)
       /\ keyVals[k].originatorId
            \notin SetOf(args.config.key_originator_id_filters[1])
       /\ keyVals[k].originatorId # args.config.node_name
       /\ kvStore[k].value = keyVals[k].value

====
